---- MODULE Spec2Model ----
(***************************************************************************)
(* layabauth.flask: the requires_authentication decorator and the          *)
(* UserIdFilter logging filter, as a state machine over one Flask request  *)
(* at a time.  The state is the request context (is one active, its        *)
(* Authorization header, flask.g.token and flask.g.token_body) and what    *)
(* the last operation did (the collaborators it called, what it raised or  *)
(* returned, the handler invocations it made, the log record it filled).   *)
(***************************************************************************)
EXTENDS Naturals, Sequences, FiniteSets, TLC

\* ------------------------------------------------------------ bounds

\* Longest positional argument list handed to a wrapped handler.
MaxArgs == 1

\* Longest run of consecutive filter calls followed.
MaxFilterRun == 2

\* ------------------------------------------------------------ values

\* Python's None, an attribute flask.g does not have, a key a dict lacks.
None == "None"
UNSET == "<unset>"
Absent == "<absent>"

\* Claim names a token payload may carry, and the values they take.
ClaimNames == {"sub", "upn"}
ClaimValues == {"user-42", "bob@corp"}

\* A dict of claims: every claim name mapped to its value or to Absent.
Mapping == [ClaimNames -> ClaimValues \cup {Absent}]
EmptyMapping == [n \in ClaimNames |-> Absent]

\* The token_field_name a UserIdFilter may be constructed with.
FieldNames == ClaimNames \cup {"oid"}

\* The bearer tokens a client may send.  Each is a compact JWS
\* "header.payload.signature" or a string that is not one.
Tokens ==
  { "garbage", "hdr.notjson.k1", "hdr.list.k1", "hdr.empty.k1",
    "hdr.user42.k1", "hdr.user42.forged", "hdr.bob.k1", "hdr.bob.k1.expired" }

\* Whether the string splits into the three segments of a compact JWS.
IsJws(t) == t # "garbage"

\* The payload segment of a JWS: its JSON type and, for an object, its members.
PayloadType(t) ==
  CASE t = "hdr.notjson.k1" -> "notjson"
    [] t = "hdr.list.k1" -> "list"
    [] OTHER -> "dict"

PayloadClaims(t) ==
  CASE t \in {"hdr.user42.k1", "hdr.user42.forged"} ->
         [n \in ClaimNames |-> IF n = "sub" THEN "user-42" ELSE Absent]
    [] t \in {"hdr.bob.k1", "hdr.bob.k1.expired"} ->
         [n \in ClaimNames |-> IF n = "upn" THEN "bob@corp" ELSE Absent]
    [] OTHER -> EmptyMapping

\* The key that produced the signature segment, and whether exp has passed.
SignedWith(t) == IF t = "hdr.user42.forged" THEN "attacker" ELSE "k1"
Expired(t) == t = "hdr.bob.k1.expired"

\* The Authorization header of a request: no header, or a scheme and credentials.
NoHeader == [scheme |-> "", credentials |-> ""]
Headers ==
  {NoHeader} \cup [scheme : {"Bearer", "Basic"}, credentials : Tokens \cup {""}]

\* What keys(jwks_uri) may do: return the key set published at the URI
\* (current, or rotated so that k1 is gone), or raise.
KeysOutcomes ==
  { [kind |-> "ok", key |-> {"k1"}, msg |-> ""],
    [kind |-> "ok", key |-> {"k2"}, msg |-> ""],
    [kind |-> "JOSEError", key |-> {}, msg |-> "Unable to parse JWKS"],
    [kind |-> "ConnectionError", key |-> {}, msg |-> "Connection refused"] }

\* Arguments a wrapped handler may receive and values it may return.
ArgValues == {"a", "b"}
ArgLists == UNION {[1..n -> ArgValues] : n \in 0..MaxArgs}
KwArgs == {{}} \cup {{<<"id", v>>} : v \in ArgValues}
Returns == {"resp-1", "resp-2"}

\* ------------------------------------------------------------ state

VARIABLES
  ctx,            \* flask.has_request_context()
  headers,        \* flask.request.headers (the Authorization header)
  g,              \* flask.g: [token, token_body]
  lastOp,         \* the operation that ran last
  calls,          \* the collaborators the last operation called, in order
  keysOutcome,    \* what keys(jwks_uri) did in the last wrapper run
  result,         \* what the last wrapper run raised or returned
  handlerCalls,   \* the invocations of func the last wrapper run made
  wrapperArgs,    \* the (*func_args, **func_kwargs) the last wrapper run got
  record,         \* the log record the last filter call was given
  filterResult,   \* what the last filter call raised or returned
  filterRun       \* how many calls of the same filter have run in a row

vars ==
  << ctx, headers, g, lastOp, calls, keysOutcome, result, handlerCalls,
     wrapperArgs, record, filterResult, filterRun >>

\* flask.g of a fresh application context: neither attribute is set.
EmptyG == [token |-> UNSET, token_body |-> [set |-> FALSE, val |-> EmptyMapping]]

NoKeys == [kind |-> "none", key |-> {}, msg |-> ""]
NoResult == [kind |-> "none", description |-> "", value |-> ""]
NoArgs == [args |-> <<>>, kwargs |-> {}]
NoRecord == [has_user_id |-> FALSE, user_id |-> "", field |-> ""]
NoFilterResult == [raised |-> "", returned |-> FALSE]

\* ------------------------------------------------------------ collaborators

\* layabauth._http._get_token: the bearer token of the Authorization header,
\* None when the header is missing or of another scheme.
_get_token(h) == IF h.scheme = "Bearer" THEN h.credentials ELSE None

\* layabauth._http.validate: the claims of a token whose signature verifies
\* under one of the keys and whose claims are valid; a JOSEError otherwise.
validate(token, key) ==
  LET fail(m) == [raised |-> TRUE, msg |-> m, claims |-> EmptyMapping] IN
  CASE ~IsJws(token) -> fail("Not enough segments")
    [] IsJws(token) /\ SignedWith(token) \notin key ->
         fail("Signature verification failed.")
    [] IsJws(token) /\ SignedWith(token) \in key /\ PayloadType(token) # "dict" ->
         fail("Invalid payload string")
    [] IsJws(token) /\ SignedWith(token) \in key /\ PayloadType(token) = "dict"
         /\ Expired(token) -> fail("Signature has expired.")
    [] OTHER -> [raised |-> FALSE, msg |-> "", claims |-> PayloadClaims(token)]

\* jose.jws.get_unverified_claims: the payload segment of a compact JWS,
\* signature unchecked; a JWSError (a JOSEError) when the string is not one.
get_unverified_claims(token) ==
  IF IsJws(token)
  THEN [raised |-> FALSE, payload |-> token]
  ELSE [raised |-> TRUE, payload |-> ""]

\* json.loads of a payload segment: the decoded value, or a JSONDecodeError
\* (a ValueError, not a JOSEError) when the payload is not JSON.
json_loads(payload) ==
  IF PayloadType(payload) = "notjson"
  THEN [raised |-> TRUE, type |-> "", map |-> EmptyMapping]
  ELSE [raised |-> FALSE, type |-> PayloadType(payload),
        map |-> IF PayloadType(payload) = "dict"
                THEN PayloadClaims(payload) ELSE EmptyMapping]

\* dict.get(name, ""): the value of the key, "" when the dict lacks it.
Get(m, name) ==
  IF name \in DOMAIN m /\ m[name] # Absent THEN m[name] ELSE ""

\* ------------------------------------------------------------ requires_authentication

NoExc == [kind |-> "", msg |-> ""]

\* werkzeug.exceptions.Unauthorized() carries the class's default description.
DefaultDescription == "<default 401 description>"

\* Mutant: `flask.g.token is None`, which lets the empty string through.
NoToken_OnlyNone(token) == token = None

\* `not flask.g.token`: None and the empty string are falsy.
NoToken(token) == token \in {None, ""}

\* Mutant: storing the token also drops the claims stored before.
StoreToken_ResetBody(gg, token) ==
  [token |-> token, token_body |-> [set |-> FALSE, val |-> EmptyMapping]]

\* flask.g.token = ...
StoreToken(gg, token) == [gg EXCEPT !.token = token]

\* flask.g.token_body = ...
StoreTokenBody(gg, claims) ==
  [gg EXCEPT !.token_body = [set |-> TRUE, val |-> claims]]

\* Mutant: the claims are decoded and stored before they are validated.
try_block_StoreUnverified(ko) ==
  LET g1 == StoreToken(g, _get_token(headers)) IN
  IF NoToken(g1.token)
  THEN [g |-> g1,
        exc |-> [kind |-> "Unauthorized", msg |-> DefaultDescription],
        calls |-> <<"_get_token">>]
  ELSE IF ko.kind # "ok"
  THEN [g |-> g1,
        exc |-> [kind |-> ko.kind, msg |-> ko.msg],
        calls |-> <<"_get_token", "keys">>]
  ELSE LET v == validate(g1.token, ko.key) IN
       IF v.raised
       THEN [g |-> StoreTokenBody(g1, PayloadClaims(g1.token)),
             exc |-> [kind |-> "JOSEError", msg |-> v.msg],
             calls |-> <<"_get_token", "keys", "validate">>]
       ELSE [g |-> StoreTokenBody(g1, v.claims),
             exc |-> NoExc,
             calls |-> <<"_get_token", "keys", "validate">>]

\* The body of the try statement with keys(jwks_uri) doing `ko`: flask.g as
\* it leaves it, the exception that ended it (NoExc: none), the calls it made.
try_block(ko) ==
  LET g1 == StoreToken(g, _get_token(headers)) IN
  IF NoToken(g1.token)
  THEN [g |-> g1,
        exc |-> [kind |-> "Unauthorized", msg |-> DefaultDescription],
        calls |-> <<"_get_token">>]
  ELSE IF ko.kind # "ok"
  THEN [g |-> g1,
        exc |-> [kind |-> ko.kind, msg |-> ko.msg],
        calls |-> <<"_get_token", "keys">>]
  ELSE LET v == validate(g1.token, ko.key) IN
       IF v.raised
       THEN [g |-> g1,
             exc |-> [kind |-> "JOSEError", msg |-> v.msg],
             calls |-> <<"_get_token", "keys", "validate">>]
       ELSE [g |-> StoreTokenBody(g1, v.claims),
             exc |-> NoExc,
             calls |-> <<"_get_token", "keys", "validate">>]

\* Mutant: `except Exception as e`.
Caught_Everything(e) == TRUE

\* `except exceptions.JOSEError as e`: the exceptions the clause catches.
Caught(e) == e.kind = "JOSEError"

\* Mutant: `raise werkzeug.exceptions.Unauthorized() from e`.
UnauthorizedFrom_NoDescription(e) ==
  [kind |-> "Unauthorized", description |-> DefaultDescription, value |-> ""]

\* `raise werkzeug.exceptions.Unauthorized(description=str(e)) from e`
UnauthorizedFrom(e) ==
  [kind |-> "Unauthorized", description |-> e.msg, value |-> ""]

\* An exception the except clause does not catch leaves the wrapper as it is.
Propagated(e) == [kind |-> e.kind, description |-> e.msg, value |-> ""]

\* Mutant: `func(*func_args)`.
CallFunc_DropKwargs(func_args, func_kwargs, gg, ret) ==
  [args |-> func_args, kwargs |-> {}, g |-> gg, returned |-> ret]

\* `func(*func_args, **func_kwargs)`: the invocation the handler sees (its
\* arguments, flask.g at that moment) and the value it returns.
CallFunc(func_args, func_kwargs, gg, ret) ==
  [args |-> func_args, kwargs |-> func_kwargs, g |-> gg, returned |-> ret]

\* wrapper(*func_args, **func_kwargs), with keys(jwks_uri) doing `ko` and the
\* wrapped handler, if it is reached, returning `ret`.
wrapper(func_args, func_kwargs, ko, ret) ==
  /\ ctx
  /\ LET t == try_block(ko) IN
     /\ g' = t.g
     /\ keysOutcome' = IF "keys" \in {t.calls[i] : i \in DOMAIN t.calls}
                       THEN ko ELSE NoKeys
     /\ IF t.exc = NoExc
        THEN LET c == CallFunc(func_args, func_kwargs, t.g, ret) IN
             /\ handlerCalls' = <<c>>
             /\ calls' = t.calls \o <<"func">>
             /\ result' = [kind |-> "returned", description |-> "",
                           value |-> c.returned]
        ELSE /\ handlerCalls' = <<>>
             /\ calls' = t.calls
             /\ result' = IF Caught(t.exc)
                          THEN UnauthorizedFrom(t.exc)
                          ELSE Propagated(t.exc)
  /\ wrapperArgs' = [args |-> func_args, kwargs |-> func_kwargs]
  /\ lastOp' = "wrapper"
  /\ record' = NoRecord
  /\ filterResult' = NoFilterResult
  /\ filterRun' = 0
  /\ UNCHANGED <<ctx, headers>>

\* ------------------------------------------------------------ UserIdFilter

\* `getattr(flask.g, "token_body", None)` as a condition: an attribute that
\* is set and is not an empty dict.
HasTokenBody(gg) == gg.token_body.set /\ gg.token_body.val # EmptyMapping

\* `not token` in _extract_token_body.
NoUnverifiedToken(token) == token \in {None, ""}

\* `except exceptions.JOSEError` in _extract_token_body.
DecodeCaught(kind) == kind = "JOSEError"

\* _extract_token_body(): the value it returns (its type and, for a dict, its
\* members) or the exception it raises, and the calls it made.
_extract_token_body ==
  LET ret(ty, m, cs) == [raised |-> "", type |-> ty, map |-> m, calls |-> cs]
      exc(k, cs) == [raised |-> k, type |-> "", map |-> EmptyMapping, calls |-> cs]
      token == _get_token(headers)
      claims == get_unverified_claims(token)
      body == json_loads(claims.payload)
  IN
  IF HasTokenBody(g)
  THEN ret("dict", g.token_body.val, <<"g.token_body">>)
  ELSE IF NoUnverifiedToken(token)
  THEN ret("dict", EmptyMapping, <<"g.token_body", "_get_token">>)
  ELSE IF claims.raised
  THEN IF DecodeCaught("JOSEError")
       THEN ret("dict", EmptyMapping,
                <<"g.token_body", "_get_token", "get_unverified_claims">>)
       ELSE exc("JOSEError",
                <<"g.token_body", "_get_token", "get_unverified_claims">>)
  ELSE IF body.raised
  THEN IF DecodeCaught("JSONDecodeError")
       THEN ret("dict", EmptyMapping,
                <<"g.token_body", "_get_token", "get_unverified_claims",
                  "json.loads">>)
       ELSE exc("JSONDecodeError",
                <<"g.token_body", "_get_token", "get_unverified_claims",
                  "json.loads">>)
  ELSE ret(body.type, body.map,
           <<"g.token_body", "_get_token", "get_unverified_claims",
             "json.loads">>)

\* Mutant: the request-context test is dropped.
has_request_context_Dropped == TRUE

\* flask.has_request_context()
has_request_context == ctx

\* The conditional expression assigned to record.user_id: its value, or the
\* exception evaluating it raises, and the calls made on the way.
user_id_expr(token_field_name) ==
  IF has_request_context
  THEN LET b == _extract_token_body IN
       IF b.raised # ""
       THEN [raised |-> b.raised, user_id |-> "", calls |-> b.calls]
       ELSE IF b.type # "dict"
       THEN [raised |-> "AttributeError", user_id |-> "", calls |-> b.calls]
       ELSE [raised |-> "", user_id |-> Get(b.map, token_field_name),
             calls |-> b.calls]
  ELSE [raised |-> "", user_id |-> "", calls |-> <<>>]

\* Whether the last operation was a call of a filter with this claim name.
SameFilterAgain(token_field_name) ==
  lastOp = "filter" /\ record.field = token_field_name

\* Mutant: the filter keeps the claims it decoded in flask.g.token_body.
filter_Caching(token_field_name) ==
  /\ SameFilterAgain(token_field_name) => filterRun < MaxFilterRun
  /\ LET u == user_id_expr(token_field_name) IN
     /\ record' = [has_user_id |-> u.raised = "", user_id |-> u.user_id,
                   field |-> token_field_name]
     /\ filterResult' = [raised |-> u.raised, returned |-> u.raised = ""]
     /\ calls' = u.calls
     /\ g' = IF has_request_context /\ u.raised = ""
             THEN StoreTokenBody(g, _extract_token_body.map) ELSE g
  /\ filterRun' = IF SameFilterAgain(token_field_name)
                  THEN filterRun + 1 ELSE 1
  /\ lastOp' = "filter"
  /\ keysOutcome' = NoKeys
  /\ result' = NoResult
  /\ handlerCalls' = <<>>
  /\ wrapperArgs' = NoArgs
  /\ UNCHANGED <<ctx, headers>>

\* UserIdFilter(token_field_name).filter(record), on a record that has no
\* user_id attribute yet.
filter(token_field_name) ==
  /\ SameFilterAgain(token_field_name) => filterRun < MaxFilterRun
  /\ LET u == user_id_expr(token_field_name) IN
     /\ record' = [has_user_id |-> u.raised = "", user_id |-> u.user_id,
                   field |-> token_field_name]
     /\ filterResult' = [raised |-> u.raised, returned |-> u.raised = ""]
     /\ calls' = u.calls
  /\ filterRun' = IF SameFilterAgain(token_field_name)
                  THEN filterRun + 1 ELSE 1
  /\ lastOp' = "filter"
  /\ keysOutcome' = NoKeys
  /\ result' = NoResult
  /\ handlerCalls' = <<>>
  /\ wrapperArgs' = NoArgs
  /\ UNCHANGED <<ctx, headers, g>>

\* ------------------------------------------------------------ request context

\* Flask pushes a request context for an incoming request: flask.g is fresh.
BeginRequest(h) ==
  /\ ~ctx
  /\ ctx' = TRUE
  /\ headers' = h
  /\ g' = EmptyG
  /\ lastOp' = "begin"
  /\ calls' = <<>>
  /\ keysOutcome' = NoKeys
  /\ result' = NoResult
  /\ handlerCalls' = <<>>
  /\ wrapperArgs' = NoArgs
  /\ record' = NoRecord
  /\ filterResult' = NoFilterResult
  /\ filterRun' = 0

\* Flask pops the request context when the request is over.
EndRequest ==
  /\ ctx
  /\ ctx' = FALSE
  /\ headers' = NoHeader
  /\ g' = EmptyG
  /\ lastOp' = "end"
  /\ calls' = <<>>
  /\ keysOutcome' = NoKeys
  /\ result' = NoResult
  /\ handlerCalls' = <<>>
  /\ wrapperArgs' = NoArgs
  /\ record' = NoRecord
  /\ filterResult' = NoFilterResult
  /\ filterRun' = 0

\* ------------------------------------------------------------ specification

Init ==
  /\ ctx = FALSE
  /\ headers = NoHeader
  /\ g = EmptyG
  /\ lastOp = "none"
  /\ calls = <<>>
  /\ keysOutcome = NoKeys
  /\ result = NoResult
  /\ handlerCalls = <<>>
  /\ wrapperArgs = NoArgs
  /\ record = NoRecord
  /\ filterResult = NoFilterResult
  /\ filterRun = 0

RunWrapper ==
  \E func_args \in ArgLists, func_kwargs \in KwArgs, ko \in KeysOutcomes,
     ret \in Returns : wrapper(func_args, func_kwargs, ko, ret)

RunFilter == \E token_field_name \in FieldNames : filter(token_field_name)

Request == \E h \in Headers : BeginRequest(h)

Next == Request \/ RunWrapper \/ RunFilter \/ EndRequest

Spec == Init /\ [][Next]_vars

\* ------------------------------------------------------------ properties

\* The token the request carries, as the extraction collaborator returns it.
SentToken == _get_token(headers)

\* The last operation was a run of the wrapper.
WrapperRan == lastOp = "wrapper"

\* The last operation was a filter call inside / outside a request context.
FilterRan == lastOp = "filter"

\* The names of the calls the last operation made.
Called == {calls[i] : i \in DOMAIN calls}

\* The last wrapper run reached validate, and this is what validate did.
Validated ==
  WrapperRan /\ SentToken \notin {None, ""} /\ keysOutcome.kind = "ok"
Validation == validate(SentToken, keysOutcome.key)

\* C1: a wrapper run on a request whose extracted token is None or empty
\* raises Unauthorized, never invokes the handler, and calls neither keys
\* nor validate.
C1_NoTokenUnauthorized ==
  (WrapperRan /\ SentToken \in {None, ""}) =>
    /\ result.kind = "Unauthorized"
    /\ handlerCalls = <<>>
    /\ Called \cap {"keys", "validate", "func"} = {}

C1_Witness ==
  /\ WrapperRan
  /\ headers = [scheme |-> "Bearer", credentials |-> ""]
  /\ result.kind = "Unauthorized"

\* C2: a wrapper run in which validate raises a JOSE error raises
\* Unauthorized whose description is the text of that error, and never
\* invokes the handler.
C2_InvalidTokenUnauthorized ==
  (Validated /\ Validation.raised) =>
    /\ result = [kind |-> "Unauthorized", description |-> Validation.msg,
                 value |-> ""]
    /\ handlerCalls = <<>>
    /\ "func" \notin Called

C2_Witness ==
  /\ Validated
  /\ SentToken = "hdr.user42.forged"
  /\ keysOutcome.key = {"k1"}
  /\ result.description = "Signature verification failed."

\* C3: a wrapper run in which validate accepts the token invokes the handler
\* exactly once, with the positional and keyword arguments the wrapper got,
\* returns what the handler returned, and at the invocation flask.g holds the
\* extracted token and the claims validate returned.
C3_ValidTokenRunsHandler ==
  (Validated /\ ~Validation.raised) =>
    /\ Len(handlerCalls) = 1
    /\ handlerCalls[1].args = wrapperArgs.args
    /\ handlerCalls[1].kwargs = wrapperArgs.kwargs
    /\ result = [kind |-> "returned", description |-> "",
                 value |-> handlerCalls[1].returned]
    /\ handlerCalls[1].g.token = SentToken
    /\ handlerCalls[1].g.token_body =
         [set |-> TRUE, val |-> Validation.claims]

C3_Witness ==
  /\ Validated
  /\ result.kind = "returned"
  /\ Len(wrapperArgs.args) = 1
  /\ wrapperArgs.kwargs # {}
  /\ g.token_body.val["sub"] = "user-42"

\* The last wrapper run called keys(jwks_uri), which raised.
KeysFailed == WrapperRan /\ keysOutcome.kind \notin {"none", "ok"}

\* C4, as claimed: every failure of keys(jwks_uri), whatever its kind,
\* leaves the wrapper as Unauthorized, and the handler is not invoked.
C4_AnyKeysFailureUnauthorized ==
  KeysFailed => (result.kind = "Unauthorized" /\ handlerCalls = <<>>)

\* C4, amended: when keys(jwks_uri) raises, the handler is not invoked and
\* validate is not called; a JOSEError leaves the wrapper as Unauthorized
\* with the error's text as description, and an exception of any other kind
\* leaves the wrapper unchanged, not as Unauthorized.
C4_JoseKeysFailureUnauthorized ==
  KeysFailed =>
    /\ handlerCalls = <<>>
    /\ Called \cap {"validate", "func"} = {}
    /\ keysOutcome.kind = "JOSEError" =>
         result = [kind |-> "Unauthorized", description |-> keysOutcome.msg,
                   value |-> ""]
    /\ keysOutcome.kind # "JOSEError" =>
         result = [kind |-> keysOutcome.kind, description |-> keysOutcome.msg,
                   value |-> ""]

C4_Witness ==
  /\ KeysFailed
  /\ keysOutcome.kind = "JOSEError"
  /\ result.kind = "Unauthorized"
  /\ result.description = "Unable to parse JWKS"

\* The unverified decode of the request's token fails: the token is not a
\* JWS, or its payload is not JSON, or is JSON that is not an object.
DecodeFails ==
  /\ SentToken \notin {None, ""}
  /\ ~IsJws(SentToken) \/ PayloadType(SentToken) # "dict"

\* C5: a filter call inside a request context whose token_body the
\* decorator has not set never raises: it returns True, and when the
\* unverified decode fails the record's user_id is the empty string.
C5_FilterNeverRaises ==
  (FilterRan /\ ctx /\ ~g.token_body.set) =>
    /\ filterResult = [raised |-> "", returned |-> TRUE]
    /\ record.has_user_id
    /\ DecodeFails => record.user_id = ""

\* C6: a filter call outside any request context sets the record's user_id
\* to the empty string and returns True, for every claim name, and reads
\* neither the request headers nor flask.g.
C6_NoContextEmptyUserId ==
  (FilterRan /\ ~ctx) =>
    /\ record.has_user_id
    /\ record.user_id = ""
    /\ filterResult = [raised |-> "", returned |-> TRUE]
    /\ calls = <<>>

C6_Witness ==
  /\ FilterRan
  /\ ~ctx
  /\ record = [has_user_id |-> TRUE, user_id |-> "", field |-> "sub"]
  /\ filterRun = MaxFilterRun

\* C7: a filter call in a request in which the decorator has stored claims
\* (an empty mapping included) takes user_id from the stored claims, and
\* does not decode the token unverified.
C7_FilterReusesValidatedClaims ==
  (FilterRan /\ ctx /\ g.token_body.set) =>
    /\ filterResult = [raised |-> "", returned |-> TRUE]
    /\ record.user_id = Get(g.token_body.val, record.field)
    /\ Called \cap {"_get_token", "get_unverified_claims", "json.loads"} = {}

\* C8: a filter call leaves flask.g and the request as they were, and a call
\* that follows a call of a filter with the same claim name in the same
\* request ends as that one did: the same user_id, or the same exception.
C8_FilterIdempotent ==
  [][ /\ (lastOp' = "filter") => (g' = g /\ headers' = headers /\ ctx' = ctx)
      /\ (lastOp = "filter" /\ lastOp' = "filter"
            /\ filterRun' = filterRun + 1) =>
           (record' = record /\ filterResult' = filterResult)
    ]_vars

C8_Witness ==
  /\ FilterRan
  /\ ctx
  /\ ~g.token_body.set
  /\ filterRun = MaxFilterRun
  /\ record.user_id = "user-42"

\* C9: claims held in flask.g.token_body are those a successful validation
\* of the token held in flask.g.token returned, and only a wrapper run that
\* went on to the handler stores them: a filter call never does.
C9_TokenBodyIsValidated ==
  /\ [](g.token_body.set =>
          /\ ctx
          /\ g.token = SentToken
          /\ \E ko \in KeysOutcomes :
               /\ ko.kind = "ok"
               /\ validate(g.token, ko.key) =
                    [raised |-> FALSE, msg |-> "", claims |-> g.token_body.val])
  /\ [][ (g'.token_body.set /\ g'.token_body # g.token_body) =>
           (lastOp' = "wrapper" /\ result'.kind = "returned") ]_vars

C9_Witness ==
  /\ FilterRan
  /\ g.token_body.set
  /\ g.token = "hdr.bob.k1"
  /\ record.user_id = "bob@corp"

\* C10, as claimed: a wrapper run that fails leaves flask.g.token and
\* flask.g.token_body as they were before it.
C10_FailureLeavesContext ==
  [][ (lastOp' = "wrapper" /\ result'.kind # "returned") => g' = g ]_vars

\* C10, amended: a wrapper run that fails (missing token, keys or validate
\* raising) leaves flask.g.token_body as it was before it, and leaves in
\* flask.g.token whatever token extraction returned, None included.
C10_FailureLeavesTokenBody ==
  [][ (lastOp' = "wrapper" /\ result'.kind # "returned") =>
        /\ g'.token_body = g.token_body
        /\ g'.token = SentToken
    ]_vars

C10_Witness ==
  /\ WrapperRan
  /\ result.kind = "Unauthorized"
  /\ "validate" \in Called
  /\ g.token_body = [set |-> TRUE, val |-> PayloadClaims("hdr.user42.k1")]

====
